---- MODULE Spec2Model ----
(***************************************************************************)
(* In-memory e-commerce record store of src/app.py: DataStructure (the     *)
(* sales list and its derived dictionaries and counters) and the           *)
(* EcommerceCRUD operations on it.                                         *)
(*                                                                         *)
(* Python values are modelled as follows.                                  *)
(*   str    a sequence of one-character strings, "BR" is <<"B", "R">>      *)
(*   number a record [t, v, s]: t is the Python type ("int", "float",      *)
(*          "nan", "inf"), v the value in quarters of a unit (3.0 is 12,   *)
(*          0.5 is 2; for "inf" v is the sign), so every product of two    *)
(*          input numbers with at most one binary fraction digit is exact  *)
(*   other  [t |-> "str", s |-> chars] and [t |-> "none"]                  *)
(* A dict is the sequence of its entries in insertion order, each entry a  *)
(* record whose field k is the key.                                        *)
(*                                                                         *)
(* op is the last call and what it returned; ingeridas is the history of   *)
(* the records appended by adicionar_venda, as they were when appended;    *)
(* arquivo is the file that exportar_vendas writes.                        *)
(***************************************************************************)
EXTENDS Integers, Sequences, FiniteSets, TLC

VARIABLES vendas, produtos, clientes, paises,
          contador_vendas_pais, contador_produtos,
          op, adds, updates,
          ingeridas,
          arquivo,
          leitor_csv, numero_linha, registros_carregados,
          registros_com_erro, registros_encoding_erro,
          retorno,
          pc, venda_em_curso

store == <<vendas, produtos, clientes, paises,
           contador_vendas_pais, contador_produtos>>
aggregates == <<produtos, clientes, paises,
                contador_vendas_pais, contador_produtos>>
\* the dataset reader and the counters of carregar_dataset_kaggle
carga == <<leitor_csv, numero_linha, registros_carregados,
           registros_com_erro, registros_encoding_erro>>
\* what the last read returned, and the position of an adicionar_venda that
\* is taken one statement at a time, with the record it is adding
chamada == <<retorno, pc, venda_em_curso>>
vars == <<vendas, produtos, clientes, paises,
          contador_vendas_pais, contador_produtos, op, adds, updates,
          ingeridas, arquivo, carga, chamada>>

(* Bounds of the model *)

\* successful adicionar_venda calls in one behaviour
MaxAdds == 2
\* atualizar_venda calls that find their record in one behaviour
MaxUpdates == 2

(* Python values *)

IntV(n) == [t |-> "int", v |-> 4 * n, s |-> <<>>]
FloatQ(q) == [t |-> "float", v |-> q, s |-> <<>>]
NaN == [t |-> "nan", v |-> 0, s |-> <<>>]
InfV(sign) == [t |-> "inf", v |-> sign, s |-> <<>>]
StrV(cs) == [t |-> "str", v |-> 0, s |-> cs]
NoneV == [t |-> "none", v |-> 0, s |-> <<>>]

IsInt(x) == x.t = "int"
IsFloat(x) == x.t \in {"float", "nan", "inf"}
IsNumber(x) == IsInt(x) \/ IsFloat(x)
IsFinite(x) == x.t \in {"int", "float"}

Sign(n) == IF n > 0 THEN 1 ELSE IF n < 0 THEN -1 ELSE 0
Abs(n) == IF n < 0 THEN -n ELSE n
\* division rounding toward zero (Python's int() of a float truncates)
TruncDiv(a, b) == Sign(a) * (Abs(a) \div b)

RECURSIVE Repeat(_, _)
\* Python str * int: n copies of the string, none when n <= 0
Repeat(cs, n) == IF n <= 0 THEN <<>> ELSE cs \o Repeat(cs, n - 1)

\* a raised exception, as the value of an expression
Raise(e) == [t |-> "raise", v |-> 0, s |-> <<e>>]
Raised(x) == "t" \in DOMAIN x /\ x.t = "raise"

\* Python x * y
PyMul(x, y) ==
    CASE IsInt(x) /\ IsInt(y) -> IntV((x.v \div 4) * (y.v \div 4))
      [] IsNumber(x) /\ IsNumber(y) ->
            IF x.t = "nan" \/ y.t = "nan" THEN NaN
            ELSE IF x.t = "inf" \/ y.t = "inf"
                 THEN IF Sign(x.v) * Sign(y.v) = 0 THEN NaN
                      ELSE InfV(Sign(x.v) * Sign(y.v))
                 ELSE FloatQ(TruncDiv(x.v * y.v, 4))
      [] x.t = "str" /\ IsInt(y) -> StrV(Repeat(x.s, y.v \div 4))
      [] IsInt(x) /\ y.t = "str" -> StrV(Repeat(y.s, x.v \div 4))
      [] OTHER -> Raise("TypeError")

\* Python x == y
PyEq(x, y) ==
    CASE IsNumber(x) /\ IsNumber(y) ->
            IF x.t = "nan" \/ y.t = "nan" THEN FALSE
            ELSE IF x.t = "inf" \/ y.t = "inf" THEN x.t = y.t /\ x.v = y.v
                 ELSE x.v = y.v
      [] x.t = "str" /\ y.t = "str" -> x.s = y.s
      [] x.t = "none" /\ y.t = "none" -> TRUE
      [] OTHER -> FALSE


\* Python x + y on numbers
PyAdd(x, y) ==
    CASE IsInt(x) /\ IsInt(y) -> IntV((x.v \div 4) + (y.v \div 4))
      [] IsNumber(x) /\ IsNumber(y) ->
            IF x.t = "nan" \/ y.t = "nan" THEN NaN
            ELSE IF x.t = "inf" /\ y.t = "inf"
                 THEN IF x.v = y.v THEN x ELSE NaN
                 ELSE IF x.t = "inf" THEN x
                      ELSE IF y.t = "inf" THEN y
                           ELSE FloatQ(x.v + y.v)
      [] OTHER -> Raise("TypeError")

\* Python truth value of x (not x is its negation)
Truthy(x) ==
    CASE x.t = "none" -> FALSE
      [] x.t = "str" -> x.s # <<>>
      [] x.t \in {"int", "float"} -> x.v # 0
      [] OTHER -> TRUE

\* Python str(x), for the values a row can hold
PyStr(x) ==
    CASE x.t = "str" -> x.s
      [] x.t = "none" -> <<"N", "o", "n", "e">>
      [] OTHER -> <<"?">>

UpperChars == <<"A", "B", "C", "D", "E", "F", "G", "H", "I", "J", "K", "L", "M",
                "N", "O", "P", "Q", "R", "S", "T", "U", "V", "W", "X", "Y", "Z">>
LowerChars == <<"a", "b", "c", "d", "e", "f", "g", "h", "i", "j", "k", "l", "m",
                "n", "o", "p", "q", "r", "s", "t", "u", "v", "w", "x", "y", "z">>
LowerChar(c) ==
    IF \E i \in 1..Len(UpperChars) : UpperChars[i] = c
    THEN LowerChars[CHOOSE i \in 1..Len(UpperChars) : UpperChars[i] = c]
    ELSE c
\* Python str.lower()
Lower(cs) == [i \in 1..Len(cs) |-> LowerChar(cs[i])]

DigitChars == <<"0", "1", "2", "3", "4", "5", "6", "7", "8", "9">>
IsDigit(c) == \E i \in 1..Len(DigitChars) : DigitChars[i] = c
DigitVal(c) == (CHOOSE i \in 1..Len(DigitChars) : DigitChars[i] = c) - 1
AllDigits(cs) == \A i \in 1..Len(cs) : IsDigit(cs[i])

RECURSIVE DigitsVal(_)
DigitsVal(cs) ==
    IF cs = <<>> THEN 0
    ELSE 10 * DigitsVal(SubSeq(cs, 1, Len(cs) - 1)) + DigitVal(cs[Len(cs)])

RECURSIVE Pow10(_)
Pow10(k) == IF k = 0 THEN 1 ELSE 10 * Pow10(k - 1)

\* Python float(x) of a str: an optional sign, then nan, inf, infinity or
\* decimal digits with at most one point (exponents are not modelled)
ParseFloat(cs) ==
    LET signed == cs # <<>> /\ cs[1] \in {"+", "-"}
        sgn == IF cs # <<>> /\ cs[1] = "-" THEN -1 ELSE 1
        body == IF signed THEN Tail(cs) ELSE cs
        dots == {i \in 1..Len(body) : body[i] = "."}
        dot == IF dots = {} THEN Len(body) + 1 ELSE CHOOSE i \in dots : TRUE
        ip == SubSeq(body, 1, dot - 1)
        fp == SubSeq(body, dot + 1, Len(body))
    IN  IF Lower(body) = <<"n", "a", "n">> THEN NaN
        ELSE IF Lower(body) \in {<<"i", "n", "f">>,
                                 <<"i", "n", "f", "i", "n", "i", "t", "y">>}
        THEN InfV(sgn)
        ELSE IF \/ Cardinality(dots) > 1
                \/ ~AllDigits(ip) \/ ~AllDigits(fp)
                \/ (ip = <<>> /\ fp = <<>>)
        THEN Raise("ValueError")
        ELSE FloatQ(sgn * (4 * DigitsVal(ip) + (4 * DigitsVal(fp)) \div Pow10(Len(fp))))

\* Python float(x)
PyFloat(x) ==
    CASE Raised(x) -> x
      [] x.t = "str" -> ParseFloat(x.s)
      [] x.t = "int" -> FloatQ(x.v)
      [] IsFloat(x) -> x
      [] OTHER -> Raise("TypeError")

\* Python int(x) of a float: truncation toward zero
PyInt(x) ==
    CASE Raised(x) -> x
      [] x.t = "nan" -> Raise("ValueError")
      [] x.t = "inf" -> Raise("OverflowError")
      [] x.t = "float" -> IntV(TruncDiv(x.v, 4))
      [] x.t = "int" -> x
      [] OTHER -> Raise("TypeError")

(* Dicts: sequences of entries in insertion order *)

Keys(d) == {d[i].k : i \in 1..Len(d)}
Has(d, key) == \E i \in 1..Len(d) : d[i].k = key
Idx(d, key) == CHOOSE i \in 1..Len(d) : d[i].k = key
Get(d, key) == d[Idx(d, key)]
\* d[key] = entry: in place for a known key, at the end for a new one
Put(d, entry) ==
    IF Has(d, entry.k) THEN [d EXCEPT ![Idx(d, entry.k)] = entry]
    ELSE Append(d, entry)

(* Rows handed to adicionar_venda: a mapping from the dataset's columns to  *)
(* a str, to None, or without the key                                       *)

MISSING == <<"<missing>">>
NONE == <<"<None>">>

\* registro.get(key, default)
RowGet(registro, key, default) ==
    IF registro[key] = MISSING THEN default
    ELSE IF registro[key] = NONE THEN NoneV
    ELSE StrV(registro[key])

\* a row as csv.DictReader or the menu builds it
Row(i, c, q, u, cust, pais) ==
    [InvoiceNo |-> i, StockCode |-> c, Description |-> <<"d">>,
     Quantity |-> q, InvoiceDate |-> <<"t">>, UnitPrice |-> u,
     CustomerID |-> cust, Country |-> pais]

\* rows that adicionar_venda accepts: two invoices, two products, a customer
\* seen under two spellings of a country, an anonymous sale, a fractional
\* quantity, a return, absent optional columns, a NaN price
ValidRows ==
    { Row(<<"1">>, <<"A">>, <<"2">>, <<"3", ".", "0">>, <<"c", "1">>, <<"B", "R">>),
      Row(<<"2">>, <<"A">>, <<"1">>, <<"3", ".", "0">>, <<>>, <<"B", "R">>),
      Row(<<"1">>, <<"B">>, <<"1", ".", "5">>, <<"0", ".", "5">>, <<"c", "1">>, <<"b", "r">>),
      Row(<<"2">>, <<"B">>, <<"-", "1">>, <<"n", "a", "n">>, <<"c", "2">>, <<>>),
      Row(<<"1">>, <<"A">>, MISSING, MISSING, MISSING, MISSING) }

\* rows with a required column absent or empty, or a number that does not
\* convert
InvalidRows ==
    { Row(i, <<"A">>, <<"2">>, <<"3", ".", "0">>, <<"c", "1">>, <<"B", "R">>) :
        i \in {MISSING, NONE, <<>>} }
    \cup
    { Row(<<"1">>, c, <<"2">>, <<"3", ".", "0">>, <<"c", "1">>, <<"B", "R">>) :
        c \in {MISSING, <<>>} }
    \cup
    { Row(<<"1">>, <<"B">>, q, <<"3", ".", "0">>, <<"c", "2">>, <<"U", "K">>) :
        q \in {NONE, <<"a", "b", "c">>, <<"n", "a", "n">>, <<"i", "n", "f">>} }
    \cup
    { Row(<<"2">>, <<"B">>, <<"2">>, u, <<"c", "2">>, <<"U", "K">>) :
        u \in {<<>>, <<"a", "b", "c">>} }
    \cup
    { Row(<<"2">>, <<"B">>, <<"i", "n", "f">>, <<"a", "b", "c">>, <<>>, <<>>) }

Rows == ValidRows \cup InvalidRows

(* DataStructure *)

\* the dict literal of adicionar_venda; its entries are evaluated in order,
\* so the first conversion that raises decides the exception
NovaVenda(registro) ==
    LET quantity == PyInt(PyFloat(RowGet(registro, "Quantity", IntV(0))))
        unit_price == PyFloat(RowGet(registro, "UnitPrice", IntV(0)))
    IN  IF Raised(quantity) THEN quantity
        ELSE IF Raised(unit_price) THEN unit_price
        ELSE [invoice_no |-> PyStr(RowGet(registro, "InvoiceNo", NoneV)),
              stock_code |-> PyStr(RowGet(registro, "StockCode", NoneV)),
              description |-> StrV(PyStr(RowGet(registro, "Description", StrV(<<>>)))),
              quantity |-> quantity,
              invoice_date |-> PyStr(RowGet(registro, "InvoiceDate", StrV(<<>>))),
              unit_price |-> unit_price,
              customer_id |-> PyStr(RowGet(registro, "CustomerID", StrV(<<>>))),
              country |-> PyStr(RowGet(registro, "Country", StrV(<<>>))),
              total |-> PyMul(quantity, unit_price)]

\* NovaVenda of every row of the model, computed once
VendaDe == [registro \in Rows |-> NovaVenda(registro)]

\* faulty variant: the validation forgets StockCode
Obrigatorios_SoInvoice(registro) ==
    Truthy(RowGet(registro, "InvoiceNo", NoneV))

\* the validation at the head of adicionar_venda
Obrigatorios(registro) ==
    /\ Truthy(RowGet(registro, "InvoiceNo", NoneV))
    /\ Truthy(RowGet(registro, "StockCode", NoneV))

\* faulty variant: the totals are assigned, not accumulated
atualizar_produto_SemAcumular(prods, venda) ==
    Put(prods, [k |-> venda.stock_code,
                description |-> venda.description,
                vendas_total |-> 1,
                quantidade_total |-> venda.quantity,
                receita_total |-> venda.total])

atualizar_produto(prods, venda) ==
    LET stock_code == venda.stock_code
        created == IF Has(prods, stock_code) THEN prods
                   ELSE Append(prods, [k |-> stock_code,
                                       description |-> venda.description,
                                       vendas_total |-> 0,
                                       quantidade_total |-> IntV(0),
                                       receita_total |-> FloatQ(0)])
        produto == Get(created, stock_code)
    IN  Put(created,
            [produto EXCEPT
               !.vendas_total = @ + 1,
               !.quantidade_total = PyAdd(@, venda.quantity),
               !.receita_total = PyAdd(@, venda.total)])

atualizar_contador_produtos(counter, venda) ==
    LET old == IF Has(counter, venda.stock_code)
               THEN Get(counter, venda.stock_code).n ELSE IntV(0)
    IN  Put(counter, [k |-> venda.stock_code, n |-> PyAdd(old, venda.quantity)])

\* faulty variant: every sale of a customer overwrites the customer's country
atualizar_cliente_UltimoPais(clis, venda) ==
    LET customer_id == venda.customer_id
        created == IF Has(clis, customer_id) THEN clis
                   ELSE Append(clis, [k |-> customer_id,
                                      pais |-> venda.country,
                                      compras_total |-> 0,
                                      quantidade_total |-> IntV(0),
                                      gasto_total |-> FloatQ(0)])
        cliente == Get(created, customer_id)
    IN  IF customer_id # <<>>
        THEN Put(created,
                 [cliente EXCEPT
                    !.pais = venda.country,
                    !.compras_total = @ + 1,
                    !.quantidade_total = PyAdd(@, venda.quantity),
                    !.gasto_total = PyAdd(@, venda.total)])
        ELSE clis

atualizar_cliente(clis, venda) ==
    LET customer_id == venda.customer_id
        created == IF Has(clis, customer_id) THEN clis
                   ELSE Append(clis, [k |-> customer_id,
                                      pais |-> venda.country,
                                      compras_total |-> 0,
                                      quantidade_total |-> IntV(0),
                                      gasto_total |-> FloatQ(0)])
        cliente == Get(created, customer_id)
    IN  IF customer_id # <<>>
        THEN Put(created,
                 [cliente EXCEPT
                    !.compras_total = @ + 1,
                    !.quantidade_total = PyAdd(@, venda.quantity),
                    !.gasto_total = PyAdd(@, venda.total)])
        ELSE clis

\* faulty variant: the country index is keyed by the lower-cased country
atualizar_pais_minusculo(ps, venda) ==
    LET pais == Lower(venda.country)
        old == IF Has(ps, pais) THEN Get(ps, pais).invoices ELSE <<>>
    IN  IF pais # <<>>
        THEN Put(ps, [k |-> pais, invoices |-> Append(old, venda.invoice_no)])
        ELSE ps

atualizar_pais(ps, venda) ==
    LET pais == venda.country
        old == IF Has(ps, pais) THEN Get(ps, pais).invoices ELSE <<>>
    IN  IF pais # <<>>
        THEN Put(ps, [k |-> pais, invoices |-> Append(old, venda.invoice_no)])
        ELSE ps

atualizar_contador_pais(counter, venda) ==
    LET pais == venda.country
        old == IF Has(counter, pais) THEN Get(counter, pais).n ELSE 0
    IN  IF pais # <<>>
        THEN Put(counter, [k |-> pais, n |-> old + 1])
        ELSE counter

(* Inputs of the CRUD operations *)

ABSENT == [t |-> "absent", v |-> 0, s |-> <<>>]

\* novos_dados: the keys quantity, unit_price, description, country,
\* invoice_no and total, each absent or holding a value
Patch(q, u, d, pais, inv, tot) ==
    [quantity |-> q, unit_price |-> u, description |-> d,
     country |-> pais, invoice_no |-> inv, total |-> tot]

Patches ==
    { Patch(IntV(5), ABSENT, ABSENT, ABSENT, ABSENT, ABSENT),
      Patch(IntV(3), FloatQ(6), StrV(<<"e">>), ABSENT, ABSENT, ABSENT),
      Patch(ABSENT, IntV(2), ABSENT, ABSENT, ABSENT, ABSENT),
      Patch(StrV(<<"a", "b">>), ABSENT, ABSENT, ABSENT, ABSENT, ABSENT),
      Patch(ABSENT, ABSENT, ABSENT, StrV(<<"U", "K">>), StrV(<<"9">>), FloatQ(4)) }

\* invoice numbers asked for: two that rows carry, one that none does
InvoiceNos == {<<"1">>, <<"2">>, <<"3">>}

(* EcommerceCRUD *)

\* faulty variant: the scan keeps the last match instead of stopping at the first
Primeiro_Ultimo(vs, invoice_no) ==
    IF \E i \in 1..Len(vs) : vs[i].invoice_no = invoice_no
    THEN CHOOSE i \in 1..Len(vs) :
            /\ vs[i].invoice_no = invoice_no
            /\ \A j \in (i + 1)..Len(vs) : vs[j].invoice_no # invoice_no
    ELSE 0

\* faulty variant: a scan that finds nothing keeps the index of the last record
Primeiro_OuUltimo(vs, invoice_no) ==
    IF \E i \in 1..Len(vs) : vs[i].invoice_no = invoice_no
    THEN CHOOSE i \in 1..Len(vs) :
            /\ vs[i].invoice_no = invoice_no
            /\ \A j \in 1..(i - 1) : vs[j].invoice_no # invoice_no
    ELSE Len(vs)

\* the position of the first record with this invoice number, 0 for none:
\* the scan shared by buscar_venda_por_invoice, atualizar_venda and
\* deletar_venda
Primeiro(vs, invoice_no) ==
    IF \E i \in 1..Len(vs) : vs[i].invoice_no = invoice_no
    THEN CHOOSE i \in 1..Len(vs) :
            /\ vs[i].invoice_no = invoice_no
            /\ \A j \in 1..(i - 1) : vs[j].invoice_no # invoice_no
    ELSE 0

\* buscar_venda_por_invoice(invoice_no): the record, or None
buscar_venda_por_invoice(vs, invoice_no) ==
    IF Primeiro(vs, invoice_no) = 0 THEN NoneV
    ELSE vs[Primeiro(vs, invoice_no)]

\* faulty variant: unit_price is missing from campos_permitidos
AplicarCampos_SemPreco(venda, novos_dados) ==
    [venda EXCEPT
       !.quantity = IF novos_dados.quantity # ABSENT
                    THEN novos_dados.quantity ELSE @,
       !.description = IF novos_dados.description # ABSENT
                       THEN novos_dados.description ELSE @]

\* faulty variant: country is among campos_permitidos
AplicarCampos_ComPais(venda, novos_dados) ==
    [venda EXCEPT
       !.quantity = IF novos_dados.quantity # ABSENT
                    THEN novos_dados.quantity ELSE @,
       !.unit_price = IF novos_dados.unit_price # ABSENT
                      THEN novos_dados.unit_price ELSE @,
       !.description = IF novos_dados.description # ABSENT
                       THEN novos_dados.description ELSE @,
       !.country = IF novos_dados.country # ABSENT
                   THEN novos_dados.country.s ELSE @]

\* the loop over campos_permitidos
AplicarCampos(venda, novos_dados) ==
    [venda EXCEPT
       !.quantity = IF novos_dados.quantity # ABSENT
                    THEN novos_dados.quantity ELSE @,
       !.unit_price = IF novos_dados.unit_price # ABSENT
                      THEN novos_dados.unit_price ELSE @,
       !.description = IF novos_dados.description # ABSENT
                       THEN novos_dados.description ELSE @]

\* venda['quantity'] * venda['unit_price']
Recalcular(venda) == PyMul(venda.quantity, venda.unit_price)

\* faulty variant: the delete drops the last record, whatever the index found
Remover_Ultimo(vs, i) == SubSeq(vs, 1, Len(vs) - 1)

\* del self.data.vendas[i]
Remover(vs, i) ==
    [j \in 1..(Len(vs) - 1) |-> IF j < i THEN vs[j] ELSE vs[j + 1]]

(* RelatoriosAnalytics *)

\* limits asked of the rankings
MaxLimit == 3
Limits == 0..MaxLimit

\* lista[:n], for a negative n as Python counts it from the end
Slice(lista, n) ==
    IF n >= 0
    THEN SubSeq(lista, 1, IF n < Len(lista) THEN n ELSE Len(lista))
    ELSE SubSeq(lista, 1, IF Len(lista) + n > 0 THEN Len(lista) + n ELSE 0)

\* faulty variant: among entries with an equal key the later one goes first
SortedDesc_TiesReversed(d, key) ==
    LET place(i) == 1 + Cardinality({j \in 1..Len(d) :
                                       \/ key[j] > key[i]
                                       \/ key[j] = key[i] /\ j > i})
    IN  [n \in 1..Len(d) |-> d[CHOOSE i \in 1..Len(d) : place(i) = n]]

\* sorted(d.items(), key = ..., reverse = True) over int keys, key[i] being
\* the key of the i-th entry: the sort is stable, so an entry goes after the
\* entries with a larger key and after the earlier entries with an equal key
SortedDesc(d, key) ==
    LET place(i) == 1 + Cardinality({j \in 1..Len(d) :
                                       \/ key[j] > key[i]
                                       \/ key[j] = key[i] /\ j < i})
    IN  [n \in 1..Len(d) |-> d[CHOOSE i \in 1..Len(d) : place(i) = n]]

\* faulty variant: reverse = True is missing, the smallest comes first
ranking_produtos_crescente(prods, top_n) ==
    LET asc == SortedDesc(prods, [i \in 1..Len(prods) |->
                                    0 - prods[i].quantidade_total.v])
    IN  Slice(asc, top_n)

\* ranking_produtos_mais_vendidos(top_n): quantidade_total is a sum of ints
ranking_produtos_mais_vendidos(prods, top_n) ==
    LET produtos_ordenados ==
            SortedDesc(prods, [i \in 1..Len(prods) |->
                                 prods[i].quantidade_total.v])
    IN  Slice(produtos_ordenados, top_n)

\* ranking_paises_por_vendas(top_n): Counter.most_common(top_n), which for
\* an int top_n is heapq.nlargest: nothing for top_n <= 0, else the first
\* top_n of the stable descending sort by count
ranking_paises_por_vendas(counter, top_n) ==
    IF top_n <= 0 THEN <<>>
    ELSE Slice(SortedDesc(counter, [i \in 1..Len(counter) |-> counter[i].n]),
               top_n)

\* a dict result of a report: t marks it, keys are the keys it holds
EmptyDict == [t |-> "dict", keys |-> {}]

RECURSIVE PySum(_, _)
\* sum(venda[field] for venda in vs): starts from the int 0 and adds from
\* the left; a str among the values raises TypeError
PySum(vs, field) ==
    IF vs = <<>> THEN IntV(0)
    ELSE LET before == PySum(SubSeq(vs, 1, Len(vs) - 1), field)
         IN  IF Raised(before) THEN before
             ELSE PyAdd(before, vs[Len(vs)][field])

\* Python x / n for a count n: the exact quotient of x (in quarters) by n
PyDiv(x, n) ==
    CASE Raised(x) -> x
      [] ~IsNumber(x) -> Raise("TypeError")
      [] n = 0 -> Raise("ZeroDivisionError")
      [] IsFinite(x) -> [t |-> "quotient", v |-> x.v, s |-> <<>>, n |-> n]
      [] OTHER -> x

\* the dict that calcular_medias builds from a non-empty vendas, or the
\* first exception of its sums
Medias(vs) ==
    LET total_vendas == Len(vs)
        soma_valores == PySum(vs, "total")
        soma_quantidades == PySum(vs, "quantity")
        soma_precos == PySum(vs, "unit_price")
    IN  IF Raised(soma_valores) THEN soma_valores
        ELSE IF Raised(soma_quantidades) THEN soma_quantidades
        ELSE IF Raised(soma_precos) THEN soma_precos
        ELSE [t |-> "dict",
              keys |-> {"receita_media_por_venda", "quantidade_media_por_venda",
                        "preco_medio_unitario", "receita_total", "total_vendas"},
              receita_media_por_venda |-> PyDiv(soma_valores, total_vendas),
              quantidade_media_por_venda |-> PyDiv(soma_quantidades, total_vendas),
              preco_medio_unitario |-> PyDiv(soma_precos, total_vendas),
              receita_total |-> soma_valores,
              total_vendas |-> total_vendas]

\* faulty variant: the check for an empty vendas is missing and nothing
\* catches the division
calcular_medias_SemValidacao(vs) ==
    IF vs = <<>> THEN PyDiv(IntV(0), 0)
    ELSE IF Raised(Medias(vs)) THEN EmptyDict ELSE Medias(vs)

\* calcular_medias(): {} for an empty vendas and for any exception
calcular_medias(vs) ==
    IF vs = <<>> THEN EmptyDict
    ELSE IF Raised(Medias(vs)) THEN EmptyDict
    ELSE Medias(vs)

\* country names asked for: the spellings rows carry, another casing, a
\* prefix, a country no row has, the empty name
NomesDePais ==
    {<<"B", "R">>, <<"b", "r">>, <<"B", "r">>, <<"B">>, <<"U", "K">>, <<>>}

\* [venda for venda in vendas if venda['country'].lower() == pais.lower()]
VendasDoPais(vs, pais) ==
    SelectSeq(vs, LAMBDA venda : Lower(venda.country) = Lower(pais))

\* faulty variant: the matching records, newest first
buscar_vendas_por_produto_Inverso(vs, stock_code) ==
    LET q == SelectSeq(vs, LAMBDA venda : venda.stock_code = stock_code)
    IN  [i \in 1..Len(q) |-> q[Len(q) + 1 - i]]

\* buscar_vendas_por_produto(stock_code): the list comprehension over vendas
buscar_vendas_por_produto(vs, stock_code) ==
    SelectSeq(vs, LAMBDA venda : venda.stock_code = stock_code)

\* stock codes asked for: those of the rows, and one that no row has
CodigosDeProduto == {<<"A">>, <<"B">>, <<"Z">>}

\* buscar_vendas_por_pais(pais)
buscar_vendas_por_pais(vs, pais) == VendasDoPais(vs, pais)

\* {'erro': ...}
ErroDict(mensagem) == [t |-> "dict", keys |-> {"erro"}, erro |-> mensagem]

\* relatorio_por_pais(pais): the report, or {'erro': ...} when nothing
\* matches and when a sum raises
relatorio_por_pais(vs, pais) ==
    LET vendas_pais == VendasDoPais(vs, pais)
        receita_total == PySum(vendas_pais, "total")
        quantidade_total == PySum(vendas_pais, "quantity")
        produtos_unicos == {vendas_pais[i].stock_code : i \in 1..Len(vendas_pais)}
        clientes_unicos == {vendas_pais[i].customer_id : i \in 1..Len(vendas_pais)}
                           \ {<<>>}
    IN  IF vendas_pais = <<>> THEN ErroDict("Nenhuma venda encontrada")
        ELSE IF Raised(receita_total) THEN ErroDict(receita_total.s[1])
        ELSE IF Raised(quantidade_total) THEN ErroDict(quantidade_total.s[1])
        ELSE [t |-> "dict",
              keys |-> {"pais", "total_vendas", "receita_total", "quantidade_total",
                        "receita_media", "produtos_unicos", "clientes_unicos"},
              pais |-> pais,
              total_vendas |-> Len(vendas_pais),
              receita_total |-> receita_total,
              quantidade_total |-> quantidade_total,
              receita_media |-> PyDiv(receita_total, Len(vendas_pais)),
              produtos_unicos |-> Cardinality(produtos_unicos),
              clientes_unicos |-> Cardinality(clientes_unicos)]

\* Python x <= y raises TypeError between a number and a str
LeRaises(x, y) == ~(IsNumber(x) /\ IsNumber(y))

\* Python x <= y between numbers: by value, false for NaN
PyLe(x, y) ==
    IF x.t = "nan" \/ y.t = "nan" THEN FALSE
    ELSE IF x.t = "inf" THEN x.v < 0 \/ (y.t = "inf" /\ y.v > 0)
    ELSE IF y.t = "inf" THEN y.v > 0
    ELSE x.v <= y.v

\* ranges asked of the filter: the default arguments, a range whose two
\* ends are totals of rows, a range of ints
Faixas ==
    { <<IntV(0), InfV(1)>>, <<FloatQ(12), FloatQ(24)>>, <<IntV(1), IntV(3)>> }

\* filtrar_vendas_por_valor(valor_minimo, valor_maximo): the chained
\* comparison is evaluated for every record, and an exception of any of
\* them makes the result []
filtrar_vendas_por_valor(vs, valor_minimo, valor_maximo) ==
    LET raises(i) ==
            \/ LeRaises(valor_minimo, vs[i].total)
            \/ /\ PyLe(valor_minimo, vs[i].total)
               /\ LeRaises(vs[i].total, valor_maximo)
    IN  IF \E i \in 1..Len(vs) : raises(i) THEN <<>>
        ELSE SelectSeq(vs, LAMBDA venda :
                 /\ PyLe(valor_minimo, venda.total)
                 /\ PyLe(venda.total, valor_maximo))

(* ExportadorCSV *)

RECURSIVE NatChars(_)
NatChars(n) ==
    IF n < 10 THEN <<DigitChars[n + 1]>>
    ELSE NatChars(n \div 10) \o <<DigitChars[(n % 10) + 1]>>

\* str(x) of an int and repr(x) of a float, as the csv writer formats them
NumberChars(x) ==
    LET sign == IF x.v < 0 THEN <<"-">> ELSE <<>>
        a == Abs(x.v)
    IN  CASE x.t = "int" -> sign \o NatChars(a \div 4)
          [] x.t = "float" ->
                sign \o NatChars(a \div 4) \o <<".">> \o
                (CASE a % 4 = 0 -> <<"0">>
                   [] a % 4 = 1 -> <<"2", "5">>
                   [] a % 4 = 2 -> <<"5">>
                   [] OTHER -> <<"7", "5">>)
          [] x.t = "nan" -> <<"n", "a", "n">>
          [] OTHER -> sign \o <<"i", "n", "f">>

\* the text the csv writer puts in a cell: '' for None, the str itself,
\* the formatted number
CsvCell(x) ==
    CASE x.t = "none" -> <<>>
      [] x.t = "str" -> x.s
      [] OTHER -> NumberChars(x)

\* fieldnames: the keys of a record, in the order of the dict literal
Fieldnames ==
    <<"invoice_no", "stock_code", "description", "quantity", "invoice_date",
      "unit_price", "customer_id", "country", "total">>

\* a line of the file is the sequence of its cells; the header holds the
\* field names
Cabecalho == [i \in 1..Len(Fieldnames) |-> <<Fieldnames[i]>>]
Linha(venda) ==
    <<venda.invoice_no, venda.stock_code, CsvCell(venda.description),
      CsvCell(venda.quantity), venda.invoice_date, CsvCell(venda.unit_price),
      venda.customer_id, venda.country, CsvCell(venda.total)>>

\* the export file does not exist
SemArquivo == [existe |-> FALSE, linhas |-> <<>>]
\* open(nome_arquivo, 'w'): the file exists and is empty
ArquivoVazio == [existe |-> TRUE, linhas |-> <<>>]

\* no read has returned yet
SemRetorno == [t |-> "nenhum", args |-> <<>>, valor |-> NoneV]

Init ==
    /\ vendas = <<>>
    /\ produtos = <<>>
    /\ clientes = <<>>
    /\ paises = <<>>
    /\ contador_vendas_pais = <<>>
    /\ contador_produtos = <<>>
    /\ op = [name |-> "init", id |-> <<>>, ret |-> "None"]
    /\ adds = 0
    /\ updates = 0
    /\ ingeridas = <<>>
    /\ arquivo = SemArquivo
    /\ leitor_csv = <<>>
    /\ numero_linha = 1
    /\ registros_carregados = 0
    /\ registros_com_erro = 0
    /\ registros_encoding_erro = 0
    /\ retorno = SemRetorno
    /\ pc = "livre"
    /\ venda_em_curso = NoneV

\* adicionar_venda(registro): True, False, or an exception that the
\* handler's except clause (ValueError, TypeError) does not catch
adicionar_venda(registro) ==
    LET venda == VendaDe[registro]
        id == PyStr(RowGet(registro, "InvoiceNo", NoneV))
    IN  IF ~Obrigatorios(registro)
        THEN /\ op' = [name |-> "adicionar_venda", id |-> id, ret |-> "False"]
             /\ UNCHANGED <<store, adds, updates, ingeridas>>
        ELSE IF Raised(venda)
        THEN /\ op' = [name |-> "adicionar_venda", id |-> id,
                       ret |-> IF venda.s[1] \in {"ValueError", "TypeError"}
                               THEN "False" ELSE venda.s[1]]
             /\ UNCHANGED <<store, adds, updates, ingeridas>>
        ELSE    /\ adds < MaxAdds
                /\ vendas' = Append(vendas, venda)
                /\ produtos' = atualizar_produto(produtos, venda)
                /\ contador_produtos' = atualizar_contador_produtos(contador_produtos, venda)
                /\ clientes' = atualizar_cliente(clientes, venda)
                /\ paises' = atualizar_pais(paises, venda)
                /\ contador_vendas_pais' = atualizar_contador_pais(contador_vendas_pais, venda)
                /\ op' = [name |-> "adicionar_venda", id |-> id, ret |-> "True"]
                /\ adds' = adds + 1
                /\ ingeridas' = Append(ingeridas, venda)
                /\ UNCHANGED updates

\* atualizar_venda(invoice_no, novos_dados): the fields are assigned in
\* place before the total is recomputed, and an exception of the product is
\* caught by the handler's except clause
atualizar_venda(invoice_no, novos_dados) ==
    LET i == Primeiro(vendas, invoice_no)
        venda == AplicarCampos(vendas[i], novos_dados)
        total == Recalcular(venda)
    IN  IF i = 0
        THEN /\ op' = [name |-> "atualizar_venda", id |-> invoice_no, ret |-> "False"]
             /\ UNCHANGED <<store, adds, updates, ingeridas>>
        ELSE /\ updates < MaxUpdates
             /\ updates' = updates + 1
             /\ IF Raised(total)
                THEN /\ vendas' = [vendas EXCEPT ![i] = venda]
                     /\ op' = [name |-> "atualizar_venda", id |-> invoice_no, ret |-> "False"]
                ELSE /\ vendas' = [vendas EXCEPT ![i] = [venda EXCEPT !.total = total]]
                     /\ op' = [name |-> "atualizar_venda", id |-> invoice_no, ret |-> "True"]
             /\ UNCHANGED <<aggregates, adds, ingeridas>>

\* faulty variant: the delete also takes the sale out of the country counter
deletar_venda_decrementa(invoice_no) ==
    LET i == Primeiro(vendas, invoice_no)
    IN  IF i = 0
        THEN /\ op' = [name |-> "deletar_venda", id |-> invoice_no, ret |-> "False"]
             /\ UNCHANGED <<store, adds, updates, ingeridas>>
        ELSE /\ vendas' = Remover(vendas, i)
             /\ contador_vendas_pais' =
                   [j \in 1..Len(contador_vendas_pais) |->
                      IF contador_vendas_pais[j].k = vendas[i].country
                      THEN [contador_vendas_pais[j] EXCEPT !.n = @ - 1]
                      ELSE contador_vendas_pais[j]]
             /\ op' = [name |-> "deletar_venda", id |-> invoice_no, ret |-> "True"]
             /\ UNCHANGED <<produtos, clientes, paises, contador_produtos,
                            adds, updates, ingeridas>>

\* deletar_venda(invoice_no): del self.data.vendas[i] for the first match
deletar_venda(invoice_no) ==
    LET i == Primeiro(vendas, invoice_no)
    IN  IF i = 0
        THEN /\ op' = [name |-> "deletar_venda", id |-> invoice_no, ret |-> "False"]
             /\ UNCHANGED <<store, adds, updates, ingeridas>>
        ELSE /\ vendas' = Remover(vendas, i)
             /\ op' = [name |-> "deletar_venda", id |-> invoice_no, ret |-> "True"]
             /\ UNCHANGED <<aggregates, adds, updates, ingeridas>>

\* exportar_vendas(): the file is opened for writing, which creates or
\* truncates it, before vendas is looked at
exportar_vendas ==
    /\ IF vendas = <<>>
       THEN /\ arquivo' = ArquivoVazio
            /\ op' = [name |-> "exportar_vendas", id |-> <<>>, ret |-> "False"]
       ELSE /\ arquivo' = [existe |-> TRUE,
                           linhas |-> <<Cabecalho>> \o
                                      [i \in 1..Len(vendas) |-> Linha(vendas[i])]]
            /\ op' = [name |-> "exportar_vendas", id |-> <<>>, ret |-> "True"]
    /\ UNCHANGED <<store, adds, updates, ingeridas, carga, chamada>>

\* the header and a line of the products report
CabecalhoProdutos ==
    << <<"stock_code">>, <<"description">>, <<"vendas_total">>,
       <<"quantidade_total">>, <<"receita_total">> >>
LinhaProduto(produto) ==
    <<produto.k, CsvCell(produto.description), NatChars(produto.vendas_total),
      CsvCell(produto.quantidade_total), CsvCell(produto.receita_total)>>

\* exportar_relatorio_produtos(): the header, then one line for each key of
\* produtos; the store is not asked whether it holds records
exportar_relatorio_produtos ==
    /\ arquivo' = [existe |-> TRUE,
                   linhas |-> <<CabecalhoProdutos>> \o
                              [i \in 1..Len(produtos) |-> LinhaProduto(produtos[i])]]
    /\ op' = [name |-> "exportar_relatorio_produtos", id |-> <<>>, ret |-> "True"]
    /\ UNCHANGED <<store, adds, updates, ingeridas, carga, chamada>>

\* the header and a line of the countries report
CabecalhoPaises == << <<"pais">>, <<"total_vendas">> >>
LinhaPais(entrada) == <<entrada.k, NatChars(entrada.n)>>

\* exportar_relatorio_paises(): the header, then one line for each key of
\* contador_vendas_pais; the store is not asked whether it holds records
exportar_relatorio_paises ==
    /\ arquivo' = [existe |-> TRUE,
                   linhas |-> <<CabecalhoPaises>> \o
                              [i \in 1..Len(contador_vendas_pais) |->
                                 LinhaPais(contador_vendas_pais[i])]]
    /\ op' = [name |-> "exportar_relatorio_paises", id |-> <<>>, ret |-> "True"]
    /\ UNCHANGED <<store, adds, updates, ingeridas, carga, chamada>>

AdicionarVenda ==
    /\ \E registro \in Rows : adicionar_venda(registro)
    /\ UNCHANGED <<arquivo, carga, chamada>>

AtualizarVenda ==
    /\ \E invoice_no \in InvoiceNos, novos_dados \in Patches :
          atualizar_venda(invoice_no, novos_dados)
    /\ UNCHANGED <<arquivo, carga, chamada>>

DeletarVenda ==
    /\ \E invoice_no \in InvoiceNos : deletar_venda(invoice_no)
    /\ UNCHANGED <<arquivo, carga, chamada>>

Next == AdicionarVenda \/ AtualizarVenda \/ DeletarVenda

Spec == Init /\ [][Next]_vars

(* EcommerceSystem.carregar_dataset_kaggle *)

\* rows of the dataset in one behaviour
MaxLinhas == 3

\* csv.DictReader gives every row all the columns of the header: a short
\* line has None in the columns it lacks, never a missing key
LinhasDoArquivo ==
    {registro \in Rows :
        \A campo \in DOMAIN registro : registro[campo] # MISSING}

\* the rows of a file that adicionar_venda appends
Aceitas(linhas) ==
    {i \in 1..Len(linhas) : Obrigatorios(linhas[i]) /\ ~Raised(VendaDe[linhas[i]])}

\* an empty store and the reader at the top of a dataset of at most
\* MaxLinhas rows
InitCarga ==
    /\ vendas = <<>>
    /\ produtos = <<>>
    /\ clientes = <<>>
    /\ paises = <<>>
    /\ contador_vendas_pais = <<>>
    /\ contador_produtos = <<>>
    /\ op = [name |-> "init", id |-> <<>>, ret |-> "None"]
    /\ adds = 0
    /\ updates = 0
    /\ ingeridas = <<>>
    /\ arquivo = SemArquivo
    /\ leitor_csv \in UNION {[1..n -> LinhasDoArquivo] : n \in 0..MaxLinhas}
    /\ Cardinality(Aceitas(leitor_csv)) <= MaxAdds
    /\ numero_linha = 1
    /\ registros_carregados = 0
    /\ registros_com_erro = 0
    /\ registros_encoding_erro = 0
    /\ retorno = SemRetorno
    /\ pc = "livre"
    /\ venda_em_curso = NoneV

\* the load is over: it returned, or an exception left the loop
Terminada == op.name = "carregar_dataset_kaggle"

\* faulty variant: the loop's handlers are missing, an exception of
\* adicionar_venda leaves the loop and the load returns False
carregar_linha_SemExcept ==
    /\ ~Terminada
    /\ numero_linha <= Len(leitor_csv)
    /\ LET registro == leitor_csv[numero_linha]
       IN  IF /\ Obrigatorios(registro)
              /\ Raised(VendaDe[registro])
              /\ VendaDe[registro].s[1] \notin {"ValueError", "TypeError"}
           THEN /\ op' = [name |-> "carregar_dataset_kaggle", id |-> <<>>,
                          ret |-> "False"]
                /\ UNCHANGED <<store, adds, updates, ingeridas, numero_linha,
                               registros_carregados, registros_com_erro>>
           ELSE /\ adicionar_venda(registro)
                /\ numero_linha' = numero_linha + 1
                /\ registros_carregados' =
                      registros_carregados + (IF op'.ret = "True" THEN 1 ELSE 0)
                /\ registros_com_erro' =
                      registros_com_erro + (IF op'.ret = "False" THEN 1 ELSE 0)
    /\ UNCHANGED <<leitor_csv, registros_encoding_erro, arquivo, chamada>>

\* one turn of the loop over the reader: the row at the reader's position
\* goes to adicionar_venda and one of the three counters goes up
carregar_linha ==
    /\ ~Terminada
    /\ numero_linha <= Len(leitor_csv)
    /\ adicionar_venda(leitor_csv[numero_linha])
    /\ numero_linha' = numero_linha + 1
    /\ registros_carregados' =
          registros_carregados + (IF op'.ret = "True" THEN 1 ELSE 0)
    /\ registros_encoding_erro' =
          registros_encoding_erro + (IF op'.ret = "UnicodeDecodeError" THEN 1 ELSE 0)
    /\ registros_com_erro' =
          registros_com_erro
          + (IF op'.ret \notin {"True", "UnicodeDecodeError"} THEN 1 ELSE 0)
    /\ UNCHANGED <<leitor_csv, arquivo, chamada>>

\* the reader is exhausted: the load reports and returns True
carregar_fim ==
    /\ ~Terminada
    /\ numero_linha > Len(leitor_csv)
    /\ op' = [name |-> "carregar_dataset_kaggle", id |-> <<>>, ret |-> "True"]
    /\ UNCHANGED <<store, adds, updates, ingeridas, arquivo, carga, chamada>>

NextCarga == carregar_linha \/ carregar_fim

SpecCarga == InitCarga /\ [][NextCarga]_vars

(* The read operations of EcommerceCRUD and RelatoriosAnalytics *)

\* faulty variant: the country search indexes the defaultdict paises, which
\* creates the key it asks for
Leitura_CriaChave(nome, args, valor) ==
    /\ op' = [name |-> nome, id |-> <<>>, ret |-> "retorno"]
    /\ retorno' = [t |-> "retorno", args |-> args, valor |-> valor]
    /\ paises' = IF nome = "buscar_vendas_por_pais" /\ ~Has(paises, args[1])
                 THEN Append(paises, [k |-> args[1], invoices |-> <<>>])
                 ELSE paises
    /\ UNCHANGED <<vendas, produtos, clientes, contador_vendas_pais,
                   contador_produtos, adds, updates, ingeridas, arquivo,
                   carga, pc, venda_em_curso>>

\* a read: it iterates over the store, assigns to none of its attributes,
\* and returns a value
Leitura(nome, args, valor) ==
    /\ op' = [name |-> nome, id |-> <<>>, ret |-> "retorno"]
    /\ retorno' = [t |-> "retorno", args |-> args, valor |-> valor]
    /\ UNCHANGED <<store, adds, updates, ingeridas, arquivo, carga,
                   pc, venda_em_curso>>

BuscarVendaPorInvoice ==
    \E invoice_no \in InvoiceNos :
        Leitura("buscar_venda_por_invoice", <<invoice_no>>,
                buscar_venda_por_invoice(vendas, invoice_no))

BuscarVendasPorProduto ==
    \E stock_code \in CodigosDeProduto :
        Leitura("buscar_vendas_por_produto", <<stock_code>>,
                buscar_vendas_por_produto(vendas, stock_code))

BuscarVendasPorPais ==
    \E pais \in NomesDePais :
        Leitura("buscar_vendas_por_pais", <<pais>>,
                buscar_vendas_por_pais(vendas, pais))

CalcularMedias ==
    Leitura("calcular_medias", <<>>, calcular_medias(vendas))

RankingProdutosMaisVendidos ==
    \E top_n \in Limits :
        Leitura("ranking_produtos_mais_vendidos", <<top_n>>,
                ranking_produtos_mais_vendidos(produtos, top_n))

RankingPaisesPorVendas ==
    \E top_n \in Limits :
        Leitura("ranking_paises_por_vendas", <<top_n>>,
                ranking_paises_por_vendas(contador_vendas_pais, top_n))

FiltrarVendasPorValor ==
    \E faixa \in Faixas :
        Leitura("filtrar_vendas_por_valor", faixa,
                filtrar_vendas_por_valor(vendas, faixa[1], faixa[2]))

RelatorioPorPais ==
    \E pais \in NomesDePais :
        Leitura("relatorio_por_pais", <<pais>>,
                relatorio_por_pais(vendas, pais))

\* the store with its reads: records are added, and between the adds every
\* read operation is called with every argument
NextLeitura ==
    \/ AdicionarVenda
    \/ BuscarVendaPorInvoice
    \/ BuscarVendasPorProduto
    \/ BuscarVendasPorPais
    \/ CalcularMedias
    \/ RankingProdutosMaisVendidos
    \/ RankingPaisesPorVendas
    \/ FiltrarVendasPorValor
    \/ RelatorioPorPais

SpecLeitura == Init /\ [][NextLeitura]_vars

(* adicionar_venda taken one statement at a time, with a reader *)

\* the aggregates that hold fewer sales of some key than vendas holds
\* records of it
Atrasados ==
    LET em_vendas(campo, chave) ==
            Cardinality({i \in 1..Len(vendas) : vendas[i][campo] = chave})
        chaves(campo) == {vendas[i][campo] : i \in 1..Len(vendas)}
    IN  {nome \in {"produtos", "clientes", "paises"} :
           \/ /\ nome = "produtos"
              /\ \E p \in chaves("stock_code") :
                    em_vendas("stock_code", p)
                       > (IF Has(produtos, p) THEN Get(produtos, p).vendas_total ELSE 0)
           \/ /\ nome = "clientes"
              /\ \E c \in chaves("customer_id") \ {<<>>} :
                    em_vendas("customer_id", c)
                       > (IF Has(clientes, c) THEN Get(clientes, c).compras_total ELSE 0)
           \/ /\ nome = "paises"
              /\ \E c \in chaves("country") \ {<<>>} :
                    em_vendas("country", c)
                       > (IF Has(paises, c) THEN Len(Get(paises, c).invoices) ELSE 0)}

\* the statements up to self.vendas.append(venda): the checks and the
\* conversions, which end the call when they fail, and the append
passo_append(registro) ==
    LET venda == VendaDe[registro]
        id == PyStr(RowGet(registro, "InvoiceNo", NoneV))
    IN  /\ pc = "livre"
        /\ IF ~Obrigatorios(registro)
           THEN /\ op' = [name |-> "adicionar_venda", id |-> id, ret |-> "False"]
                /\ UNCHANGED <<vendas, adds, ingeridas, pc, venda_em_curso>>
           ELSE IF Raised(venda)
           THEN /\ op' = [name |-> "adicionar_venda", id |-> id,
                          ret |-> IF venda.s[1] \in {"ValueError", "TypeError"}
                                  THEN "False" ELSE venda.s[1]]
                /\ UNCHANGED <<vendas, adds, ingeridas, pc, venda_em_curso>>
           ELSE /\ adds < MaxAdds
                /\ vendas' = Append(vendas, venda)
                /\ ingeridas' = Append(ingeridas, venda)
                /\ adds' = adds + 1
                /\ op' = [name |-> "adicionar_venda", id |-> id, ret |-> "pendente"]
                /\ pc' = "produto"
                /\ venda_em_curso' = venda
        /\ UNCHANGED <<aggregates, updates, arquivo, carga, retorno>>

\* self._atualizar_produto(venda)
passo_produto ==
    /\ pc = "produto"
    /\ produtos' = atualizar_produto(produtos, venda_em_curso)
    /\ contador_produtos' = atualizar_contador_produtos(contador_produtos, venda_em_curso)
    /\ pc' = "cliente"
    /\ UNCHANGED <<vendas, clientes, paises, contador_vendas_pais, op, adds,
                   updates, ingeridas, arquivo, carga, retorno, venda_em_curso>>

\* self._atualizar_cliente(venda)
passo_cliente ==
    /\ pc = "cliente"
    /\ clientes' = atualizar_cliente(clientes, venda_em_curso)
    /\ pc' = "pais"
    /\ UNCHANGED <<vendas, produtos, paises, contador_vendas_pais,
                   contador_produtos, op, adds, updates, ingeridas, arquivo,
                   carga, retorno, venda_em_curso>>

\* faulty variant: the call returns without the country update
passo_pais_Esquecido ==
    /\ pc = "pais"
    /\ op' = [op EXCEPT !.ret = "True"]
    /\ pc' = "livre"
    /\ venda_em_curso' = NoneV
    /\ UNCHANGED <<store, adds, updates, ingeridas, arquivo, carga, retorno>>

\* self._atualizar_pais(venda); return True
passo_pais ==
    /\ pc = "pais"
    /\ paises' = atualizar_pais(paises, venda_em_curso)
    /\ contador_vendas_pais' = atualizar_contador_pais(contador_vendas_pais, venda_em_curso)
    /\ op' = [op EXCEPT !.ret = "True"]
    /\ pc' = "livre"
    /\ venda_em_curso' = NoneV
    /\ UNCHANGED <<vendas, produtos, clientes, contador_produtos, adds,
                   updates, ingeridas, arquivo, carga, retorno>>

PassoAppend == \E registro \in Rows : passo_append(registro)

\* a reader that runs between two statements of the writer: it looks at
\* vendas and at the aggregates, and keeps what it saw and where the writer
\* was
ler ==
    /\ retorno' = [t |-> "observacao", args |-> <<pc>>, valor |-> Atrasados]
    /\ UNCHANGED <<store, op, adds, updates, ingeridas, arquivo, carga,
                   pc, venda_em_curso>>

\* a whole operation starts only when no call is under way
DeletarVendaInteira == pc = "livre" /\ DeletarVenda

NextPassos ==
    \/ PassoAppend
    \/ passo_produto
    \/ passo_cliente
    \/ passo_pais
    \/ DeletarVendaInteira
    \/ ler

SpecPassos == Init /\ [][NextPassos]_vars

\* the store with its export: records come and go, and the file is written
NextExport ==
    \/ AdicionarVenda
    \/ DeletarVenda
    \/ exportar_vendas
    \/ exportar_relatorio_produtos
    \/ exportar_relatorio_paises

SpecExport == Init /\ [][NextExport]_vars

(* Claims *)

\* the last call was this operation and returned this
Returned(name, ret) == op.name = name /\ op.ret = ret

\* the same value, NaN counting as the same as NaN
SameValue(x, y) == (x.t = "nan" /\ y.t = "nan") \/ PyEq(x, y)

\* the positions of the records with this invoice number
Matches(vs, invoice_no) == {i \in 1..Len(vs) : vs[i].invoice_no = invoice_no}
First(S) == CHOOSE i \in S : \A j \in S : i <= j

\* C1: after any sequence of adicionar_venda, atualizar_venda and
\* deletar_venda calls, successful or failed, every record in vendas has
\* total == quantity * unit_price (the product is defined and total has its
\* value).
C1_TotalIsProduct ==
    \A i \in 1..Len(vendas) :
        LET product == PyMul(vendas[i].quantity, vendas[i].unit_price)
        IN  ~Raised(product) /\ SameValue(vendas[i].total, product)

\* the row's InvoiceNo or StockCode is missing or empty
RequiredAbsent(registro) ==
    \/ registro.InvoiceNo \in {MISSING, NONE, <<>>}
    \/ registro.StockCode \in {MISSING, NONE, <<>>}

\* C2: adicionar_venda of a row whose InvoiceNo or StockCode is missing or
\* empty returns False and leaves vendas, produtos, clientes, paises and both
\* counters as they were, from any store state.
C2_RejectsMissingRequired ==
    [][\A registro \in Rows :
          (/\ op'.name = "adicionar_venda" /\ RequiredAbsent(registro)
           /\ adicionar_venda(registro))
          => (op'.ret = "False" /\ UNCHANGED store)]_vars

\* a row without InvoiceNo was refused on a store that holds records
C2_Witness ==
    /\ op.name = "adicionar_venda" /\ op.ret = "False" /\ op.id = <<>>
    /\ Len(vendas) > 0 /\ produtos # <<>>

IdentityFields ==
    {"invoice_no", "stock_code", "description", "quantity", "invoice_date",
     "unit_price", "customer_id", "country"}

\* record a carries the eight ingested fields of record b
SameIngested(a, b) == a # NoneV /\ \A f \in IdentityFields : a[f] = b[f]

\* C3 as claimed: right after a successful adicionar_venda(row),
\* buscar_venda_por_invoice(row.InvoiceNo) returns a record whose eight
\* ingested fields are the normalized values of that row, also when an
\* earlier record carries the same invoice number.
C3_FindsAddedRecord ==
    [][\A registro \in Rows :
          (Returned("adicionar_venda", "True")' /\ adicionar_venda(registro))
          => SameIngested(buscar_venda_por_invoice(vendas', registro.InvoiceNo),
                          VendaDe[registro])]_vars

\* C3 as amended: right after a successful adicionar_venda(row),
\* buscar_venda_por_invoice(row.InvoiceNo) returns the record just added when
\* no earlier record carries that invoice number, and otherwise the earliest
\* record that carries it, as it stood before the call.
C3_FindsFirstWithInvoice ==
    [][\A registro \in Rows :
          (Returned("adicionar_venda", "True")' /\ adicionar_venda(registro))
          => LET found == buscar_venda_por_invoice(vendas', registro.InvoiceNo)
                 earlier == Matches(vendas, registro.InvoiceNo)
             IN  IF earlier = {}
                 THEN /\ SameIngested(found, VendaDe[registro])
                      /\ found = vendas'[Len(vendas')]
                 ELSE found = vendas[First(earlier)]]_vars

\* a row was added whose invoice number an earlier, different record carries
C3_Witness ==
    /\ op.name = "adicionar_venda" /\ op.ret = "True"
    /\ Len(vendas) = 2
    /\ vendas[1].invoice_no = vendas[2].invoice_no
    /\ vendas[1].stock_code # vendas[2].stock_code

\* C4 as claimed: after a successful deletar_venda(id) no record with that
\* invoice number is findable (buscar_venda_por_invoice(id) returns None),
\* also in stores holding several records with that invoice number.
C4_DeletedIsGone ==
    [][\A id \in InvoiceNos :
          (Returned("deletar_venda", "True")' /\ deletar_venda(id))
          => buscar_venda_por_invoice(vendas', id) = NoneV]_vars

\* C4 as amended: after a successful deletar_venda(id) on a store where
\* exactly one record carried id, buscar_venda_por_invoice(id) returns None
\* and a second deletar_venda(id) returns False and changes nothing; where
\* several records carried id, the next of them is found instead.
C4_DeletedIsGoneWhenUnique ==
    [][/\ \A id \in InvoiceNos :
            (Returned("deletar_venda", "True")' /\ deletar_venda(id))
            => LET were == Matches(vendas, id)
               IN  IF Cardinality(were) = 1
                   THEN buscar_venda_por_invoice(vendas', id) = NoneV
                   ELSE buscar_venda_por_invoice(vendas', id)
                           = vendas[First(were \ {First(were)})]
       /\ \A id \in InvoiceNos :
            (/\ op.name = "deletar_venda" /\ op.ret = "True" /\ op.id = id
             /\ buscar_venda_por_invoice(vendas, id) = NoneV
             /\ deletar_venda(id))
            => (op'.ret = "False" /\ UNCHANGED store)]_vars

\* an invoice number that was ingested and deleted is asked for again by
\* deletar_venda, which finds nothing, while another record remains
C4_Witness ==
    /\ op.name = "deletar_venda" /\ op.ret = "False"
    /\ Len(vendas) = 1 /\ adds = 2
    /\ Matches(vendas, op.id) = {}
    /\ \E i \in 1..Len(paises) :
          \E j \in 1..Len(paises[i].invoices) : paises[i].invoices[j] = op.id

C6_FailedUpdateChangesNothing ==
    [][\A id \in InvoiceNos, novos_dados \in Patches :
          (Returned("atualizar_venda", "False")' /\ atualizar_venda(id, novos_dados))
          => vendas' = vendas]_vars

\* C7: a successful atualizar_venda(id, patch) sets quantity and unit_price of
\* the first record with that invoice number to the patch values where
\* given, keeps the old ones where not, and leaves total equal to the product
\* of the resulting quantity and unit_price.
C7_UpdateRecomputesTotal ==
    [][\A id \in InvoiceNos, novos_dados \in Patches :
          (Returned("atualizar_venda", "True")' /\ atualizar_venda(id, novos_dados))
          => LET were == Matches(vendas, id)
                 old == vendas[First(were)]
                 new == vendas'[First(were)]
             IN  /\ were # {}
                 /\ new.quantity = IF novos_dados.quantity # ABSENT
                                   THEN novos_dados.quantity ELSE old.quantity
                 /\ new.unit_price = IF novos_dados.unit_price # ABSENT
                                     THEN novos_dados.unit_price ELSE old.unit_price
                 /\ ~Raised(PyMul(new.quantity, new.unit_price))
                 /\ new.total = PyMul(new.quantity, new.unit_price)]_vars

\* a patch of quantity alone (5) met the old unit_price 3.0: total is 15.0
C7_Witness ==
    /\ op.name = "atualizar_venda" /\ op.ret = "True"
    /\ \E i \in 1..Len(vendas) :
          /\ vendas[i].invoice_no = op.id
          /\ vendas[i].quantity = IntV(5)
          /\ vendas[i].unit_price = FloatQ(12)
          /\ vendas[i].total = FloatQ(60)

\* every key of the patch is outside quantity, unit_price, description
OnlyDisallowed(novos_dados) ==
    /\ novos_dados.quantity = ABSENT
    /\ novos_dados.unit_price = ABSENT
    /\ novos_dados.description = ABSENT

\* C8: atualizar_venda(id, patch) on an invoice number that a record carries,
\* with a patch whose keys are all outside quantity, unit_price and
\* description, returns True and leaves every field of the record, total
\* included, unchanged.
C8_DisallowedPatchIsNoop ==
    [][\A id \in InvoiceNos, novos_dados \in Patches :
          (/\ op'.name = "atualizar_venda"
           /\ OnlyDisallowed(novos_dados)
           /\ Matches(vendas, id) # {}
           /\ atualizar_venda(id, novos_dados))
          => (op'.ret = "True" /\ vendas' = vendas)]_vars

\* C9: atualizar_venda and deletar_venda, successful or not, leave produtos,
\* clientes, paises, contador_vendas_pais and contador_produtos unchanged.
C9_AggregatesKeptByUpdateAndDelete ==
    [][\A id \in InvoiceNos :
          (\/ /\ op'.name = "atualizar_venda"
              /\ \E novos_dados \in Patches : atualizar_venda(id, novos_dados)
           \/ /\ op'.name = "deletar_venda"
              /\ deletar_venda(id))
          => UNCHANGED aggregates]_vars

\* the last record was deleted and the aggregates still count it
C9_Witness ==
    /\ op.name = "deletar_venda" /\ op.ret = "True"
    /\ vendas = <<>>
    /\ produtos # <<>> /\ contador_produtos # <<>>
    /\ \E i \in 1..Len(contador_vendas_pais) : contador_vendas_pais[i].n = 2

\* these three indices reflect this record
Indexed(venda, prods, clis, ps) ==
    /\ Has(prods, venda.stock_code)
    /\ venda.customer_id # <<>> => Has(clis, venda.customer_id)
    /\ venda.country # <<>> => Has(ps, venda.country)

\* C10: after every successful adicionar_venda the new record is the last
\* element of vendas and the three indices reflect it; and after every
\* operation every record in vendas has its stock_code in produtos, its
\* non-empty customer_id in clientes and its non-empty country in paises.
C10_AddedRecordIsIndexed ==
    [][/\ \A registro \in Rows :
            (Returned("adicionar_venda", "True")' /\ adicionar_venda(registro))
            => /\ vendas' = Append(vendas, VendaDe[registro])
               /\ Indexed(vendas'[Len(vendas')], produtos', clientes', paises')
       /\ \A i \in 1..Len(vendas') :
            Indexed(vendas'[i], produtos', clientes', paises')]_vars

\* a second record, with a customer and a country, was added and indexed
C10_Witness ==
    /\ op.name = "adicionar_venda" /\ op.ret = "True"
    /\ Len(vendas) = 2
    /\ vendas[2].customer_id # <<>> /\ vendas[2].country # <<>>
    /\ Indexed(vendas[2], produtos, clientes, paises)

\* texts and values of a numeric column that are no finite number
NotNumbers ==
    {NONE, <<>>, <<"a", "b", "c">>, <<"n", "a", "n">>, <<"i", "n", "f">>}

\* C11: adicionar_venda called with a row whose Quantity or UnitPrice cannot
\* be coerced to a number (non-numeric text, empty string, None, or a
\* non-finite value) returns False as an ordinary result, never raises past
\* its own boundary, and leaves vendas and all aggregates unchanged.
C11_RejectsNotNumbers ==
    [][\A registro \in Rows :
          (/\ op'.name = "adicionar_venda"
           /\ registro.Quantity \in NotNumbers \/ registro.UnitPrice \in NotNumbers
           /\ adicionar_venda(registro))
          => (op'.ret = "False" /\ UNCHANGED store)]_vars

\* C12: atualizar_venda(id, patch) and deletar_venda(id) return False when no
\* record in vendas has invoice number id, and in that case leave vendas and
\* every aggregate unchanged.
C12_AbsentTargetIsRefused ==
    [][\A id \in InvoiceNos :
          (/\ op'.id = id
           /\ Matches(vendas, id) = {}
           /\ \/ /\ op'.name = "atualizar_venda"
                 /\ \E novos_dados \in Patches : atualizar_venda(id, novos_dados)
              \/ /\ op'.name = "deletar_venda"
                 /\ deletar_venda(id))
          => (op'.ret = "False" /\ UNCHANGED store)]_vars

\* atualizar_venda was refused for an invoice number that no record of a
\* store holding records carries
C12_Witness ==
    /\ op.name = "atualizar_venda" /\ op.ret = "False"
    /\ Len(vendas) > 0 /\ produtos # <<>>
    /\ Matches(vendas, op.id) = {}
    /\ updates = 0

RECURSIVE SumField(_, _, _)
\* the sum of a field over a sequence of records, from a zero of the
\* field's type
SumField(vs, field, zero) ==
    IF vs = <<>> THEN zero
    ELSE PyAdd(SumField(SubSeq(vs, 1, Len(vs) - 1), field, zero),
               vs[Len(vs)][field])

\* the records that successful adicionar_venda calls appended with this
\* stock code, as they were at insertion
IngestedOf(p) == SelectSeq(ingeridas, LAMBDA venda : venda.stock_code = p)

ExampleA1 ==
    Row(<<"1">>, <<"A">>, <<"2">>, <<"3", ".", "0">>, <<"c", "1">>, <<"B", "R">>)
ExampleA2 ==
    Row(<<"2">>, <<"A">>, <<"1">>, <<"3", ".", "0">>, <<>>, <<"B", "R">>)

\* C13: after any sequence of operations, for every product code p,
\* produtos[p] holds vendas_total = the number of successful adicionar_venda
\* calls with stock code p, quantidade_total = the sum of their quantities and
\* receita_total = the sum of their totals as computed at insertion (and
\* there is an entry for exactly the codes so added); in particular ingesting
\* (1, A, 2, 3.0) and (2, A, 1, 3.0) yields for A quantidade_total 3,
\* vendas_total 2, receita_total 9.0.
C13_ProdutosSumIngested ==
    /\ Keys(produtos) = {ingeridas[i].stock_code : i \in 1..Len(ingeridas)}
    /\ \A i \in 1..Len(produtos) :
          LET mine == IngestedOf(produtos[i].k)
          IN  /\ produtos[i].vendas_total = Len(mine)
              /\ SameValue(produtos[i].quantidade_total,
                           SumField(mine, "quantity", IntV(0)))
              /\ SameValue(produtos[i].receita_total,
                           SumField(mine, "total", FloatQ(0)))
    /\ ingeridas = <<VendaDe[ExampleA1], VendaDe[ExampleA2]>>
       => /\ Get(produtos, <<"A">>).quantidade_total = IntV(3)
          /\ Get(produtos, <<"A">>).vendas_total = 2
          /\ Get(produtos, <<"A">>).receita_total = FloatQ(36)

\* the two rows of the example were ingested, one of them was then updated
\* and the other deleted
C13_Witness ==
    /\ ingeridas = <<NovaVenda(ExampleA1), NovaVenda(ExampleA2)>>
    /\ Len(vendas) = 1 /\ updates > 0
    /\ vendas[1] \notin {NovaVenda(ExampleA1), NovaVenda(ExampleA2)}
    /\ Get(produtos, <<"A">>).receita_total = FloatQ(36)

\* C14: for every non-negative limit n and every reachable store state,
\* ranking_produtos_mais_vendidos(n) returns min(n, number of product codes)
\* entries (distinct entries of produtos), ordered so that quantidade_total
\* is non-increasing along the result, and no product left out has a larger
\* quantidade_total than one included.
C14_RankingIsTopN ==
    \A n \in Limits :
        LET r == ranking_produtos_mais_vendidos(produtos, n)
            included == {r[i].k : i \in 1..Len(r)}
        IN  /\ Len(r) = IF n < Len(produtos) THEN n ELSE Len(produtos)
            /\ Cardinality(included) = Len(r)
            /\ \A i \in 1..Len(r) : Has(produtos, r[i].k) /\ r[i] = Get(produtos, r[i].k)
            /\ \A i \in 1..(Len(r) - 1) :
                  r[i].quantidade_total.v >= r[i + 1].quantidade_total.v
            /\ \A j \in 1..Len(produtos), i \in 1..Len(r) :
                  produtos[j].k \notin included
                  => produtos[j].quantidade_total.v <= r[i].quantidade_total.v

\* two products, the one seen later sold more: the ranking of one entry
\* holds the later one and leaves the earlier one out
C14_Witness ==
    /\ Len(produtos) = 2
    /\ produtos[1].quantidade_total.v < produtos[2].quantidade_total.v
    /\ ranking_produtos_mais_vendidos(produtos, 1) = <<produtos[2]>>
    /\ ranking_produtos_mais_vendidos(produtos, 3) = <<produtos[2], produtos[1]>>

\* C15: calcular_medias returns the empty result whenever vendas is empty,
\* both on a freshly constructed store and on a store emptied by deletes
\* whose aggregates are still non-empty; it never produces a division error.
C15_MediasOfEmptyStore ==
    /\ vendas = <<>> => calcular_medias(vendas) = EmptyDict
    /\ ~Raised(calcular_medias(vendas))

\* the store was emptied by a delete, its aggregates still hold a product
C15_Witness ==
    /\ op.name = "deletar_venda" /\ op.ret = "True"
    /\ vendas = <<>> /\ ingeridas # <<>> /\ produtos # <<>>
    /\ calcular_medias(vendas) = EmptyDict

\* C16: exportar_vendas called while vendas is empty returns False and writes
\* nothing: no output file is created and an already existing file of that
\* name keeps its contents.
C16_EmptyExportWritesNothing ==
    [][(op'.name = "exportar_vendas" /\ vendas = <<>> /\ exportar_vendas)
       => (op'.ret = "False" /\ arquivo' = arquivo)]_vars

\* the records whose country is this name, ignoring case
OfCountry(vs, name) ==
    {i \in 1..Len(vs) : Lower(vs[i].country) = Lower(name)}

\* C17: relatorio_por_pais(name) returns an error-flagged result (a mapping
\* with key 'erro') and raises nothing exactly when no record in vendas has a
\* country equal to name ignoring case; otherwise it returns a report
\* without the 'erro' key.
C17_ErroOnlyWhenNoMatch ==
    \A name \in NomesDePais :
        LET r == relatorio_por_pais(vendas, name)
        IN  /\ ~Raised(r)
            /\ ("erro" \in r.keys) <=> (OfCountry(vendas, name) = {})

RECURSIVE IsSubSeq(_, _)
\* the elements of a occur in b, in the order of a
IsSubSeq(a, b) ==
    IF a = <<>> THEN TRUE
    ELSE IF b = <<>> THEN FALSE
    ELSE IF Head(a) = Head(b) THEN IsSubSeq(Tail(a), Tail(b))
    ELSE IsSubSeq(a, Tail(b))

\* a row with both required columns and two finite numbers
ValidRow(registro) ==
    /\ ~RequiredAbsent(registro)
    /\ registro.Quantity \notin NotNumbers
    /\ registro.UnitPrice \notin NotNumbers

\* the records of the valid rows of the dataset, in the dataset's order
ValidOfFile ==
    LET valid == SelectSeq(leitor_csv, ValidRow)
    IN  [i \in 1..Len(valid) |-> NovaVenda(valid[i])]

FrozenFields ==
    {"invoice_no", "stock_code", "invoice_date", "customer_id", "country"}

\* C19: no call to atualizar_venda, with any patch, ever changes a record's
\* invoice_no, stock_code, invoice_date, customer_id or country, and it
\* changes no record other than the first one whose invoice_no matches; the
\* length and order of vendas are unchanged.
C19_UpdateKeepsIdentityAndOthers ==
    [][op'.name = "atualizar_venda"
       => LET were == Matches(vendas, op'.id)
          IN  /\ \E novos_dados \in Patches : atualizar_venda(op'.id, novos_dados)
              /\ Len(vendas') = Len(vendas)
              /\ \A i \in 1..Len(vendas) :
                    IF were # {} /\ i = First(were)
                    THEN \A f \in FrozenFields : vendas'[i][f] = vendas[i][f]
                    ELSE vendas'[i] = vendas[i]]_vars

\* of two records with one invoice number the first was changed by two
\* updates and kept its five identity fields; the second is as it was
\* ingested
C19_Witness ==
    /\ op.name = "atualizar_venda" /\ op.ret = "True"
    /\ adds = 2 /\ updates = 2 /\ Len(vendas) = 2
    /\ vendas[1].invoice_no = op.id /\ vendas[2].invoice_no = op.id
    /\ vendas[1] # ingeridas[1]
    /\ vendas[1].quantity = IntV(5)
    /\ \A f \in FrozenFields : vendas[1][f] = ingeridas[1][f]
    /\ vendas[2] = ingeridas[2]

\* C20: relatorio_por_pais(name) and buscar_vendas_por_pais(name) select
\* exactly the records of vendas whose whole country field equals name
\* ignoring case (no substring match); the report's total_vendas is the
\* number of those records, receita_total and quantidade_total are the sums
\* of their current total and quantity, produtos_unicos is the number of
\* distinct stock codes and clientes_unicos the number of distinct non-empty
\* customer ids among them.
C20_CountrySelectionAndReport ==
    \A name \in NomesDePais :
        LET sel == SelectSeq(vendas, LAMBDA venda : Lower(venda.country) = Lower(name))
            r == relatorio_por_pais(vendas, name)
        IN  /\ buscar_vendas_por_pais(vendas, name) = sel
            /\ sel # <<>>
               => /\ "erro" \notin r.keys
                  /\ r.total_vendas = Len(sel)
                  /\ SameValue(r.receita_total, SumField(sel, "total", IntV(0)))
                  /\ SameValue(r.quantidade_total, SumField(sel, "quantity", IntV(0)))
                  /\ r.produtos_unicos
                        = Cardinality({sel[i].stock_code : i \in 1..Len(sel)})
                  /\ r.clientes_unicos
                        = Cardinality({sel[i].customer_id : i \in 1..Len(sel)} \ {<<>>})

\* q is the quotient of this sum by this count
IsQuotientOf(q, sum, count) ==
    IF IsFinite(sum)
    THEN q.t = "quotient" /\ q.v * count = sum.v * q.n
    ELSE SameValue(q, sum)

\* C21: on a non-empty store, calcular_medias reports values computed from
\* the records currently in vendas (reflecting earlier updates and deletes,
\* not the insertion-time aggregates): total_vendas is the number of live
\* records, receita_total is the sum of their totals, and
\* receita_media_por_venda, quantidade_media_por_venda and
\* preco_medio_unitario are the sums of total, quantity and unit_price
\* divided by that count.
C21_MediasOfLiveRecords ==
    vendas # <<>>
    => LET m == calcular_medias(vendas)
           count == Len(vendas)
       IN  /\ "total_vendas" \in m.keys
           /\ m.total_vendas = count
           /\ SameValue(m.receita_total, SumField(vendas, "total", IntV(0)))
           /\ IsQuotientOf(m.receita_media_por_venda,
                           SumField(vendas, "total", IntV(0)), count)
           /\ IsQuotientOf(m.quantidade_media_por_venda,
                           SumField(vendas, "quantity", IntV(0)), count)
           /\ IsQuotientOf(m.preco_medio_unitario,
                           SumField(vendas, "unit_price", IntV(0)), count)

\* the position in the history of adds of the first record with this value
\* in this field
FirstSeen(field, value) ==
    First({i \in 1..Len(ingeridas) : ingeridas[i][field] = value})

\* C22: in ranking_produtos_mais_vendidos and ranking_paises_por_vendas,
\* entries with equal sort key (quantidade_total, respectively sale count)
\* appear in the order in which their key was first added to the store.
C22_TiesInFirstSeenOrder ==
    \A n \in Limits :
        LET rp == ranking_produtos_mais_vendidos(produtos, n)
            rc == ranking_paises_por_vendas(contador_vendas_pais, n)
        IN  /\ \A i, j \in 1..Len(rp) :
                  (i < j /\ rp[i].quantidade_total.v = rp[j].quantidade_total.v)
                  => FirstSeen("stock_code", rp[i].k) < FirstSeen("stock_code", rp[j].k)
            /\ \A i, j \in 1..Len(rc) :
                  (i < j /\ rc[i].n = rc[j].n)
                  => FirstSeen("country", rc[i].k) < FirstSeen("country", rc[j].k)

\* two products with the same quantidade_total and two countries with the
\* same count, and both rankings list the two
C22_Witness ==
    /\ Len(produtos) = 2
    /\ produtos[1].quantidade_total.v = produtos[2].quantidade_total.v
    /\ Len(contador_vendas_pais) = 2
    /\ contador_vendas_pais[1].n = contador_vendas_pais[2].n
    /\ Len(ranking_produtos_mais_vendidos(produtos, 2)) = 2
    /\ Len(ranking_paises_por_vendas(contador_vendas_pais, 2)) = 2

\* the non-empty country strings that successful adds carried
CountriesSeen ==
    {ingeridas[i].country : i \in 1..Len(ingeridas)} \ {<<>>}

InRange(total, lo, hi) ==
    /\ IsNumber(total)
    /\ PyLe(lo, total)
    /\ PyLe(total, hi)

\* C24: filtrar_vendas_por_valor(min, max) returns exactly the records of
\* vendas with min <= total <= max (both bounds inclusive), in the order they
\* have in vendas; with the default arguments it returns exactly the records
\* whose total is >= 0.
C24_FilterByValue ==
    /\ \A faixa \in Faixas :
          filtrar_vendas_por_valor(vendas, faixa[1], faixa[2])
             = SelectSeq(vendas, LAMBDA venda : InRange(venda.total, faixa[1], faixa[2]))
    /\ filtrar_vendas_por_valor(vendas, IntV(0), InfV(1))
          = SelectSeq(vendas, LAMBDA venda :
                         IsNumber(venda.total) /\ PyLe(IntV(0), venda.total))

\* the positions in the history of adds of the records of this customer
AddsOfCustomer(id) == {i \in 1..Len(ingeridas) : ingeridas[i].customer_id = id}

\* C25: clientes has a key for a customer id exactly when some successful add
\* carried that non-empty customer id (adds with an empty customer id create
\* no entry); the entry's country ('pais') is the country of the first such
\* add and is never changed by later adds, and compras_total counts those
\* adds.
C25_ClientesFollowAdds ==
    /\ Keys(clientes)
          = {ingeridas[i].customer_id : i \in 1..Len(ingeridas)} \ {<<>>}
    /\ \A i \in 1..Len(clientes) :
          /\ clientes[i].pais = ingeridas[First(AddsOfCustomer(clientes[i].k))].country
          /\ clientes[i].compras_total = Cardinality(AddsOfCustomer(clientes[i].k))

\* a customer bought twice, under two spellings of the country: the entry
\* keeps the first spelling and counts two purchases
C25_Witness ==
    /\ Len(ingeridas) = 2
    /\ ingeridas[1].customer_id = <<"c", "1">>
    /\ ingeridas[2].customer_id = <<"c", "1">>
    /\ ingeridas[1].country # ingeridas[2].country
    /\ Len(clientes) = 1
    /\ clientes[1].pais = ingeridas[1].country
    /\ clientes[1].compras_total = 2

\* the invoice numbers of the successful adds with this country, in the
\* order of the adds
InvoicesOfCountry(c) ==
    LET of_c == SelectSeq(ingeridas, LAMBDA venda : venda.country = c)
    IN  [i \in 1..Len(of_c) |-> of_c[i].invoice_no]

\* C26: in every reachable state, for every country key c: c is non-empty,
\* paises[c] is the sequence of invoice numbers of the successful adds with
\* country c in the order they were added, and contador_vendas_pais[c]
\* equals the length of paises[c]; likewise contador_produtos[p] equals
\* produtos[p].quantidade_total for every product code p.
C26_IndexesFollowAdds ==
    /\ Keys(contador_vendas_pais) = Keys(paises)
    /\ \A i \in 1..Len(paises) :
          /\ paises[i].k # <<>>
          /\ paises[i].invoices = InvoicesOfCountry(paises[i].k)
          /\ Get(contador_vendas_pais, paises[i].k).n = Len(paises[i].invoices)
    /\ Keys(contador_produtos) = Keys(produtos)
    /\ \A i \in 1..Len(produtos) :
          Get(contador_produtos, produtos[i].k).n = produtos[i].quantidade_total

\* two sales of one country and one product were added: the country's list
\* holds both invoice numbers in the order of the adds
C26_Witness ==
    /\ Len(ingeridas) = 2
    /\ ingeridas[1].country = ingeridas[2].country
    /\ ingeridas[1].invoice_no # ingeridas[2].invoice_no
    /\ ingeridas[1].stock_code = ingeridas[2].stock_code
    /\ Len(paises) = 1
    /\ paises[1].invoices = <<ingeridas[1].invoice_no, ingeridas[2].invoice_no>>
    /\ Len(produtos) = 1
    /\ contador_produtos[1].n = PyAdd(ingeridas[1].quantity, ingeridas[2].quantity)

\* the fields of a record that no operation rewrites
Identity(venda) == [f \in FrozenFields |-> venda[f]]
Identities(vs) == [i \in 1..Len(vs) |-> Identity(vs[i])]

\* the stock codes asked for: those of the rows, and one that no row has
StockCodes == CodigosDeProduto

ReadNames ==
    {"buscar_venda_por_invoice", "buscar_vendas_por_produto",
     "buscar_vendas_por_pais", "calcular_medias",
     "ranking_produtos_mais_vendidos", "ranking_paises_por_vendas",
     "filtrar_vendas_por_valor", "relatorio_por_pais"}

\* C28: the read operations (buscar_venda_por_invoice,
\* buscar_vendas_por_produto, buscar_vendas_por_pais, calcular_medias,
\* ranking_produtos_mais_vendidos, ranking_paises_por_vendas,
\* filtrar_vendas_por_valor, relatorio_por_pais), called with any argument,
\* leave vendas, produtos, clientes, paises and both counters unchanged (no
\* key is created as a side effect of a lookup).
C28_ReadsChangeNothing ==
    [][op'.name \in ReadNames
       => /\ vendas' = vendas
          /\ produtos' = produtos
          /\ clientes' = clientes
          /\ paises' = paises
          /\ contador_vendas_pais' = contador_vendas_pais
          /\ contador_produtos' = contador_produtos]_vars

\* a country that the store does not hold was searched for in a store with
\* records: nothing was found and the country has no key
C28_Witness ==
    /\ op.name = "buscar_vendas_por_pais"
    /\ retorno.args = << <<"U", "K">> >>
    /\ retorno.valor = <<>>
    /\ vendas # <<>>
    /\ paises # <<>>
    /\ ~Has(paises, <<"U", "K">>)
    /\ ~Has(contador_vendas_pais, <<"U", "K">>)

ExportNames ==
    {"exportar_vendas", "exportar_relatorio_produtos", "exportar_relatorio_paises"}

\* C29: each of the three exports (exportar_vendas,
\* exportar_relatorio_produtos, exportar_relatorio_paises) reports failure
\* when the store holds zero records.
C29_ExportsFailOnEmptyStore ==
    (op.name \in ExportNames /\ vendas = <<>>) => op.ret = "False"

\* C30: when adicionar_venda is modelled as its separate steps (append to
\* vendas, then the product, customer and country updates), a reader
\* interleaved between those steps can observe a record in vendas that is
\* not yet reflected in produtos, clientes or paises, whereas no such state
\* is observable when operations run one at a time to completion: whenever
\* no call is under way no aggregate lags behind vendas, and every
\* observation of a lagging aggregate was made while a call was under way.
C30_StaleOnlyMidAdd ==
    /\ pc = "livre" => Atrasados = {}
    /\ (retorno.t = "observacao" /\ retorno.valor # {})
          => retorno.args # <<"livre">>

\* the reader looked right after the append: the record was in vendas and
\* none of the three aggregates had it
C30_Witness ==
    /\ retorno.t = "observacao"
    /\ retorno.args = <<"produto">>
    /\ retorno.valor = {"produtos", "clientes", "paises"}

====
